---- MODULE Spec2Model ----
(***************************************************************************)
(* Em Dasher (src/main.ts): on every editor-change event the plugin looks  *)
(* at the text before the cursor and, when it ends in "--" + space outside *)
(* code and URLs, replaces the two hyphens by an em dash.                  *)
(*                                                                         *)
(* A line is a sequence of one-character strings; columns are 0-based as   *)
(* in the source, lines of the document are 0-based too (GetLine).         *)
(***************************************************************************)
EXTENDS Integers, Sequences, FiniteSets, TLC

VARIABLES
  doc,       \* the lines of the buffer
  cursor,    \* [line, ch] of the cursor
  cm5,       \* the editor offers cm.getTokenAt
  keys,      \* the characters the user is about to type
  pending,   \* the change event not yet delivered: "none", "user", "rewrite"
  rewrites,  \* replaceRange calls since the last keystroke
  ev         \* what the last call of the plugin read, found and did

vars == <<doc, cursor, cm5, keys, pending, rewrites, ev>>

(***************************************************************************)
(* Characters                                                              *)
(***************************************************************************)
Hy == "-"
Sp == " "
\* the backtick U+0060, one character of the line
Bt == "BT"
\* the em dash U+2014, one character of the line
EmDash == "EM"

DashDash == <<Hy, Hy>>
Fence == <<Bt, Bt, Bt>>

Min(a, b) == IF a < b THEN a ELSE b
Max(a, b) == IF a < b THEN b ELSE a

(***************************************************************************)
(* The JavaScript string operations the plugin uses                        *)
(***************************************************************************)
\* the white space a line can hold (a line holds no line break)
IsSpace(ch) == ch \in {" ", "\t"}

\* String.prototype.charAt: "" outside the string
CharAt(s, i) == IF i >= 0 /\ i < Len(s) THEN <<s[i + 1]>> ELSE <<>>

\* String.prototype.substring(a, b): arguments clamped to [0, length], swapped
\* when a > b
Substring(s, a, b) ==
  LET ca == Min(Max(a, 0), Len(s))
      cb == Min(Max(b, 0), Len(s))
  IN SubSeq(s, Min(ca, cb) + 1, Max(ca, cb))

SubstringFrom(s, a) == Substring(s, a, Len(s))

StartsWith(s, p) == Len(s) >= Len(p) /\ SubSeq(s, 1, Len(p)) = p

\* String.prototype.indexOf: the first index of sub in s, -1 when absent
IndexOf(s, sub) ==
  LET hits == {i \in 0..(Len(s) - Len(sub)) : SubSeq(s, i + 1, i + Len(sub)) = sub}
  IN IF hits = {} THEN -1 ELSE CHOOSE i \in hits : \A j \in hits : i <= j

Includes(s, sub) == IndexOf(s, sub) # -1

\* String.prototype.trim: whitespace removed at both ends
Trim(s) ==
  LET solid == {i \in 1..Len(s) : ~IsSpace(s[i])}
  IN IF solid = {} THEN <<>>
     ELSE SubSeq(s, CHOOSE i \in solid : \A j \in solid : i <= j,
                    CHOOSE i \in solid : \A j \in solid : i >= j)

\* editor.getLine(n), n 0-based
GetLine(d, n) == d[n + 1]

\* lineText.trim().startsWith(three backticks)
IsFenceLine(line) == StartsWith(Trim(line), Fence)

(***************************************************************************)
(* isInsideCodeBlock, src/main.ts 85-190.  pos is the probe position       *)
(***************************************************************************)
LookBack == 10

\* lines 95-105: the fence lines among lines 0..i toggle inBlock
RECURSIVE FenceCount(_, _)
FenceCount(d, n) ==
  IF n < 0 THEN 0
  ELSE FenceCount(d, n - 1) + (IF IsFenceLine(GetLine(d, n)) THEN 1 ELSE 0)

InBlock(d, i) == FenceCount(d, i) % 2 = 1

\* lines 108-119: the loop over k = i+1 .. pos.line
RECURSIVE BlockStillOpen(_, _, _, _)
BlockStillOpen(d, pos, k, open) ==
  IF k > pos.line THEN open
  ELSE BlockStillOpen(d, pos, k + 1,
         IF IsFenceLine(GetLine(d, k))
         THEN (k = pos.line /\ IndexOf(GetLine(d, k), Fence) > pos.ch)
         ELSE open)

\* lines 92-131: one iteration of the outer loop returns true
FenceAt(d, pos, i) ==
  /\ IsFenceLine(GetLine(d, i))
  /\ InBlock(d, i)
  /\ BlockStillOpen(d, pos, i + 1, TRUE)
  /\ pos.line >= i
  /\ ~(pos.line = i /\ pos.ch <= IndexOf(GetLine(d, i), Fence) + 2)

\* the window one line short
FenceScanShortWindow(d, pos) ==
  \E i \in Max(0, pos.line - LookBack + 1)..pos.line : FenceAt(d, pos, i)

\* lines 91-133
FenceScan(d, pos) ==
  \E i \in Max(0, pos.line - LookBack)..pos.line : FenceAt(d, pos, i)

\* lines 134-146
OnFenceLine(d, pos) ==
  /\ IsFenceLine(GetLine(d, pos.line))
  /\ pos.ch > IndexOf(GetLine(d, pos.line), Fence)
  /\ FenceCount(d, pos.line) % 2 # 0

\* a token of the syntax engine of the host: only start and type are read
NoType == <<>>
InlineCode == <<"i","n","l","i","n","e","-","c","o","d","e">>
CodeWord == <<"c","o","d","e">>
InlineWord == <<"i","n","l","i","n","e">>
NullToken == [null |-> TRUE, start |-> 0, type |-> NoType]

\* lines 155-166
TokenCheck(tok, pos) ==
  /\ ~tok.null
  /\ tok.type # NoType
  /\ Includes(tok.type, CodeWord)
  /\ Includes(tok.type, InlineWord)
  /\ tok.start <= pos.ch - 1

\* the backticks of the whole line counted
BacktickCountWholeLine(line, pos) ==
  Cardinality({i \in 0..(Len(line) - 1) : CharAt(line, i) = <<Bt>>})

\* lines 171-178
BacktickCount(line, pos) ==
  Cardinality({i \in 0..(pos.ch - 2) : CharAt(line, i) = <<Bt>>})

\* lines 168-187
BacktickFallback(d, pos) ==
  LET currentLine == GetLine(d, pos.line)
  IN /\ BacktickCount(currentLine, pos) % 2 # 0
     /\ Includes(SubstringFrom(currentLine, pos.ch + 1), <<Bt>>)

isInsideCodeBlock(d, pos, hasCm5, tok) ==
  \/ FenceScan(d, pos)
  \/ OnFenceLine(d, pos)
  \/ (hasCm5 /\ TokenCheck(tok, pos))
  \/ BacktickFallback(d, pos)

(***************************************************************************)
(* isInsideUrl, src/main.ts 192-240                                        *)
(***************************************************************************)
LowerLetters ==
  {"a", "b", "c", "d", "e", "f", "g", "h", "i", "j", "k", "l", "m", "n", "o", "p", "q", "r", "s", "t", "u", "v", "w", "x", "y", "z"}
UpperLetters ==
  {"A", "B", "C", "D", "E", "F", "G", "H", "I", "J", "K", "L", "M", "N", "O", "P", "Q", "R", "S", "T", "U", "V", "W", "X", "Y", "Z"}
Digits == {"0", "1", "2", "3", "4", "5", "6", "7", "8", "9"}

\* String.prototype.toLowerCase, per character
LowerOf(ch) ==
  LET l == <<"a", "b", "c", "d", "e", "f", "g", "h", "i", "j", "k", "l", "m", "n", "o", "p", "q", "r", "s", "t", "u", "v", "w", "x", "y", "z">>
      u == <<"A", "B", "C", "D", "E", "F", "G", "H", "I", "J", "K", "L", "M", "N", "O", "P", "Q", "R", "S", "T", "U", "V", "W", "X", "Y", "Z">>
      at == {i \in 1..26 : u[i] = ch}
  IN IF at = {} THEN ch ELSE l[CHOOSE i \in at : TRUE]

ToLowerCase(s) == [i \in 1..Len(s) |-> LowerOf(s[i])]

\* \w
WordChar(ch) == ch \in LowerLetters \cup UpperLetters \cup Digits \cup {"_"}
\* [\w\-]
HostChar(ch) == WordChar(ch) \/ ch = "-"
\* [\w\-\.,@?^=%&:/~\+#]
TailChar(ch) ==
  WordChar(ch) \/ ch \in {"-", ".", ",", "@", "?", "^", "=", "%", "&", ":", "/", "~", "+", "#"}
\* [\w\-\@?^=%&/~\+#]
TailLast(ch) ==
  WordChar(ch) \/ ch \in {"-", "@", "?", "^", "=", "%", "&", "/", "~", "+", "#"}
\* [\s()\[\]]
SplitChar(ch) == IsSpace(ch) \/ ch \in {"(", ")", "[", "]"}

\* textAfterDash.split(/[\s()\[\]]/)[0]: the text before the first delimiter
SplitFirst(s) ==
  LET cut == {i \in 1..Len(s) : SplitChar(s[i])}
  IN IF cut = {} THEN s
     ELSE SubSeq(s, 1, (CHOOSE i \in cut : \A j \in cut : i <= j) - 1)

\* the end (exclusive, 0-based) of the longest run of characters of a class
\* that starts at column p
RECURSIVE HostRunEnd(_, _)
HostRunEnd(s, p) ==
  IF p < Len(s) /\ HostChar(s[p + 1]) THEN HostRunEnd(s, p + 1) ELSE p

RECURSIVE TailRunEnd(_, _)
TailRunEnd(s, p) ==
  IF p < Len(s) /\ TailChar(s[p + 1]) THEN TailRunEnd(s, p + 1) ELSE p

\* (?:https?|ftp):\/\/ at column i, case-insensitive: the column after it, or -1
SchemeEnd(s, i) ==
  LET low == ToLowerCase(Substring(s, i, i + 8))
      https == <<"h","t","t","p","s",":","/","/">>
      http == <<"h","t","t","p",":","/","/">>
      ftp == <<"f","t","p",":","/","/">>
  IN IF low = https THEN i + 8
     ELSE IF Substring(low, 0, 7) = http THEN i + 7
     ELSE IF Substring(low, 0, 6) = ftp THEN i + 6
     ELSE -1

\* a label is followed by "." and the start of another label
DotLabelAt(s, e) ==
  e + 1 < Len(s) /\ s[e + 1] = "." /\ HostChar(s[e + 2])

\* (?:[\w\-]+\.)+[\w\-]+ from column p, greedy: the column after the last
\* label, or -1 when there are not two labels
RECURSIVE LabelsEnd(_, _)
LabelsEnd(s, p) ==
  LET e == HostRunEnd(s, p)
  IN IF e = p THEN -1
     ELSE IF DotLabelAt(s, e) THEN LabelsEnd(s, e + 1)
     ELSE e

HostEnd(s, p) ==
  LET e == HostRunEnd(s, p)
  IN IF e > p /\ DotLabelAt(s, e) THEN LabelsEnd(s, p) ELSE -1

\* (?:[\w\-\.,@?^=%&:/~\+#]*[\w\-\@?^=%&/~\+#])? from column h, greedy
TailEnd(s, h) ==
  LET t == TailRunEnd(s, h)
      ends == {e \in (h + 1)..t : TailLast(s[e])}
  IN IF ends = {} THEN h ELSE CHOOSE e \in ends : \A f \in ends : e >= f

\* urlPattern anchored at column i: the column after the match, or -1
UrlMatchEnd(s, i) ==
  LET p == SchemeEnd(s, i)
  IN IF p = -1 THEN -1
     ELSE LET h == HostEnd(s, p)
          IN IF h = -1 THEN -1 ELSE TailEnd(s, h)

UrlStarts(s) == {i \in 0..(Len(s) - 1) : UrlMatchEnd(s, i) # -1}

\* urlPattern.test(s)
UrlTest(s) == UrlStarts(s) # {}

\* s.match(urlPattern)[0]: the leftmost match
UrlMatch(s) ==
  LET i == CHOOSE a \in UrlStarts(s) : \A b \in UrlStarts(s) : a <= b
  IN SubSeq(s, i + 1, UrlMatchEnd(s, i))

\* lines 220-231: the host carve-out
HostBranch(m, textBeforeDash) ==
  LET hostAndPath == SubstringFrom(m, SchemeEnd(m, 0))
      slash == IndexOf(hostAndPath, <<"/">>)
      host == IF slash = -1 THEN hostAndPath ELSE SubSeq(hostAndPath, 1, slash)
      potentialHostPartInLine ==
        SubstringFrom(textBeforeDash,
                      IndexOf(ToLowerCase(textBeforeDash), ToLowerCase(host)))
  IN Includes(host, DashDash) /\ Len(potentialHostPartInLine) <= Len(host)

\* the test of line 214 left out
InMatchedSpanAnywhere(m, currentLine, textBeforeDash, pos) ==
  IndexOf(currentLine, m) # -1

\* lines 209-236, once the pattern has matched m containing "--"
InMatchedSpan(m, currentLine, textBeforeDash, pos) ==
  LET urlStartIndex == IndexOf(currentLine, m)
      urlEndIndex == urlStartIndex + Len(m)
  IN IF urlStartIndex = -1 THEN FALSE
     ELSE IF pos.ch > urlStartIndex /\ pos.ch <= urlEndIndex
          THEN (IF HostBranch(m, textBeforeDash) THEN TRUE ELSE TRUE)
          ELSE FALSE

\* lines 197-201
FullPotentialUrl(textBeforeDash, d, pos) ==
  LET currentLine == GetLine(d, pos.line)
      textAfterDash == SubstringFrom(currentLine, pos.ch)
  IN textBeforeDash \o DashDash \o SplitFirst(textAfterDash)

isInsideUrl(textBeforeDash, d, pos) ==
  LET full == FullPotentialUrl(textBeforeDash, d, pos)
  IN IF UrlTest(full)
     THEN LET m == UrlMatch(full)
          IN IF Includes(m, DashDash)
             THEN InMatchedSpan(m, GetLine(d, pos.line), textBeforeDash, pos)
             ELSE FALSE
     ELSE FALSE

(***************************************************************************)
(* handleEditorChange, src/main.ts 32-83                                   *)
(***************************************************************************)
\* the run check of lines 48-53 left out
TriggerFiresAnyRun(line, c) ==
  /\ c >= 3
  /\ CharAt(line, c - 1) = <<Sp>>
  /\ Substring(line, c - 3, c - 1) = DashDash

\* lines 36-53: the "--" + space before the cursor, not part of a longer run
TriggerFires(line, c) ==
  /\ c >= 3
  /\ CharAt(line, c - 1) = <<Sp>>
  /\ Substring(line, c - 3, c - 1) = DashDash
  /\ (c - 4 < 0 \/ CharAt(line, c - 4) # <<Hy>>)

\* lines 56-59
ContextCheckPos(cur) == [line |-> cur.line, ch |-> cur.ch - 1]
\* line 60
TextContextBeforeDash(line, cur) == Substring(line, 0, cur.ch - 3)
\* lines 61-64
ContextPosBeforeDash(cur) == [line |-> cur.line, ch |-> cur.ch - 3]

\* the range ends after the space instead of before it
EmDashEditOverSpace(cur) ==
  [text |-> <<EmDash>>,
   from |-> [line |-> cur.line, ch |-> cur.ch - 3],
   to   |-> [line |-> cur.line, ch |-> cur.ch]]

\* the range is empty: the em dash is inserted and the hyphens stay
EmDashEditInsert(cur) ==
  [text |-> <<EmDash>>,
   from |-> [line |-> cur.line, ch |-> cur.ch - 3],
   to   |-> [line |-> cur.line, ch |-> cur.ch - 3]]

\* lines 74-78: the one replaceRange call
EmDashEdit(cur) ==
  [text |-> <<EmDash>>,
   from |-> [line |-> cur.line, ch |-> cur.ch - 3],
   to   |-> [line |-> cur.line, ch |-> cur.ch - 1]]

\* Editor.replaceRange(text, from, to) of the host, from and to on one line
ReplaceRange(d, e) ==
  LET line == GetLine(d, e.from.line)
  IN [d EXCEPT ![e.from.line + 1] =
        SubSeq(line, 1, e.from.ch) \o e.text \o SubSeq(line, e.to.ch + 1, Len(line))]

\* lines 149-153: the token is asked for only when the fence checks fall through
TokenAsked(d, cur, hasCm5) ==
  /\ hasCm5
  /\ TriggerFires(GetLine(d, cur.line), cur.ch)
  /\ ~FenceScan(d, ContextCheckPos(cur))
  /\ ~OnFenceLine(d, ContextCheckPos(cur))

\* what one call of the handler finds and does
Handled(d, cur, hasCm5, tok, cause) ==
  LET line == GetLine(d, cur.line)
      fired == TriggerFires(line, cur.ch)
      inCode == fired /\ isInsideCodeBlock(d, ContextCheckPos(cur), hasCm5, tok)
      inUrl == fired /\ ~inCode
               /\ isInsideUrl(TextContextBeforeDash(line, cur), d, ContextPosBeforeDash(cur))
  IN [kind |-> "handled", cause |-> cause, doc0 |-> d, cur0 |-> cur, tok |-> tok,
      fired |-> fired, inCode |-> inCode, inUrl |-> inUrl,
      calls |-> IF fired /\ ~inCode /\ ~inUrl THEN <<EmDashEdit(cur)>> ELSE <<>>]

(***************************************************************************)
(* The host: the document, the cursor, the change events, the tokens       *)
(***************************************************************************)
NoEvent ==
  [kind |-> "none", cause |-> "none", doc0 |-> <<>>, cur0 |-> [line |-> 0, ch |-> 0],
   tok |-> NullToken, fired |-> FALSE, inCode |-> FALSE, inUrl |-> FALSE,
   calls |-> <<>>]

\* a backtick somewhere in the document before the position
BacktickBefore(d, pos) ==
  \/ \E n \in 0..(pos.line - 1) : Includes(GetLine(d, n), <<Bt>>)
  \/ Includes(Substring(GetLine(d, pos.line), 0, pos.ch), <<Bt>>)

\* how far before the position the token may start
MaxTokenBack == 2

\* cm.getTokenAt(pos, true): the token that ends at or after pos and starts
\* before it; an inline-code type needs an opening backtick before pos
HostTokens(d, pos) ==
  {NullToken} \cup
  {[null |-> FALSE, start |-> st, type |-> ty] :
     st \in Max(0, pos.ch - MaxTokenBack)..Max(0, pos.ch - 1),
     ty \in {NoType, CodeWord} \cup (IF BacktickBefore(d, pos) THEN {InlineCode} ELSE {})}

\* the cursor after the host has applied an edit that ends before it: moved
\* left with the text, or left in place when the line is long enough
CursorsAfter(d, cur, e) ==
  LET shift == (e.to.ch - e.from.ch) - Len(e.text)
      newLen == Len(GetLine(ReplaceRange(d, e), cur.line))
  IN {[line |-> cur.line, ch |-> c] : c \in {cur.ch - shift, cur.ch} \cap 0..newLen}

\* the user types one character at the cursor; the host raises editor-change
Keystroke ==
  /\ pending = "none"
  /\ keys # <<>>
  /\ LET line == GetLine(doc, cursor.line)
     IN doc' = [doc EXCEPT ![cursor.line + 1] =
                  SubSeq(line, 1, cursor.ch) \o <<Head(keys)>>
                    \o SubSeq(line, cursor.ch + 1, Len(line))]
  /\ cursor' = [cursor EXCEPT !.ch = cursor.ch + 1]
  /\ keys' = Tail(keys)
  /\ pending' = "user"
  /\ rewrites' = 0
  /\ ev' = NoEvent
  /\ UNCHANGED cm5

\* lines 24-26, 32-83: the host delivers a change event to the handler; a
\* replaceRange changes the document and raises the next change event
HandleEditorChange ==
  /\ pending # "none"
  /\ \E tok \in (IF TokenAsked(doc, cursor, cm5)
                 THEN HostTokens(doc, ContextCheckPos(cursor)) ELSE {NullToken}) :
       LET h == Handled(doc, cursor, cm5, tok, pending)
       IN /\ ev' = h
          /\ IF h.calls = <<>>
             THEN /\ doc' = doc
                  /\ cursor' = cursor
                  /\ pending' = "none"
                  /\ rewrites' = rewrites
             ELSE /\ doc' = ReplaceRange(doc, h.calls[1])
                  /\ cursor' \in CursorsAfter(doc, cursor, h.calls[1])
                  /\ pending' = "rewrite"
                  /\ rewrites' = rewrites + 1
  /\ UNCHANGED <<cm5, keys>>

\* lines 85-190 called on their own, with the cursor as the probe position
ProbeCodeBlock ==
  /\ pending = "none"
  /\ ev.kind = "none"
  /\ \E tok \in (IF cm5 /\ ~FenceScan(doc, cursor) /\ ~OnFenceLine(doc, cursor)
                 THEN HostTokens(doc, cursor) ELSE {NullToken}) :
       ev' = [NoEvent EXCEPT !.kind = "probe", !.doc0 = doc, !.cur0 = cursor,
                             !.tok = tok,
                             !.inCode = isInsideCodeBlock(doc, cursor, cm5, tok)]
  /\ UNCHANGED <<doc, cursor, cm5, keys, pending, rewrites>>

Next == Keystroke \/ HandleEditorChange \/ ProbeCodeBlock

(***************************************************************************)
(* Documents the editor may hold when the plugin is loaded                 *)
(***************************************************************************)
MaxLen == 4
MaxLines == 12
MaxFences == 2
MaxSegs == 4

Strings(A, n) == UNION {[1..k -> A] : k \in 0..n}

Positions(d, n) == {[line |-> n, ch |-> c] : c \in 0..Len(GetLine(d, n))}

Start(d, cur, scripts, hosts) ==
  /\ doc = d
  /\ cursor = cur
  /\ keys \in scripts
  /\ cm5 \in hosts
  /\ pending = "none"
  /\ rewrites = 0
  /\ ev = NoEvent

\* short lines of prose, hyphens and backticks, alone or among other lines
Alphabet == {"a", Hy, Sp, Bt}
Scripts == {<<Sp>>, <<Hy, Sp>>}

Init ==
  \E l \in Strings(Alphabet, MaxLen) :
    \E lay \in {<<0, <<l>>>>, <<1, <<Fence, l>>>>,
                <<1, <<<<Hy, Hy, Sp>>, l, <<Hy, Hy, Sp>>>>>>} :
      \E cur \in Positions(lay[2], lay[1]) : Start(lay[2], cur, Scripts, BOOLEAN)

Spec == Init /\ [][Next]_vars

\* documents with fence lines above the cursor line
FenceTexts == {Fence, <<Sp>> \o Fence}
CursorLines == {<<"a", Hy, Hy>>, Fence, <<Sp, Sp>> \o Fence, Fence \o <<Hy, Hy>>}

FenceDoc(n, fs, ft, cl) ==
  [i \in 1..n |-> IF i = n THEN cl ELSE IF i \in fs THEN ft ELSE <<"x">>]

InitFence ==
  \E n \in 1..MaxLines :
    \E fs \in {f \in SUBSET (1..(n - 1)) : Cardinality(f) <= MaxFences} :
      \E ft \in FenceTexts, cl \in CursorLines :
        LET d == FenceDoc(n, fs, ft, cl)
        IN \E cur \in Positions(d, n - 1) : Start(d, cur, {<<Sp>>}, {FALSE})

SpecFence == InitFence /\ [][Next]_vars

\* one line put together from pieces of URLs, hyphens and blanks
UrlSegs ==
  {<<"h","t","t","p",":","/","/">>, <<"a",".","b">>,
   <<"h","t","t","p",":","/","/","a",".","b">>, DashDash, <<Sp>>,
   <<"/","x">>, <<"?","q","#","f">>}
UrlRests == {<<>>, <<"/","y">>, <<"F","t","p",":","/","/","a",".","b">>}

RECURSIVE Concat(_)
Concat(ss) == IF ss = <<>> THEN <<>> ELSE Head(ss) \o Concat(Tail(ss))

InitUrl ==
  \E ss \in Strings(UrlSegs, MaxSegs), r \in UrlRests :
    LET left == Concat(ss)
    IN Start(<<left \o r>>, [line |-> 0, ch |-> Len(left)], {<<Sp>>}, {FALSE})

SpecUrl == InitUrl /\ [][Next]_vars

(***************************************************************************)
(* Properties                                                              *)
(***************************************************************************)
\* the last step was a call of the handler: doc is the document it left
EvHandled == ev.kind = "handled"
EvLine == GetLine(ev.doc0, ev.cur0.line)
EvCol == ev.cur0.ch
EvRewrote == ev.calls # <<>>

\* "--" + space ends at the cursor, and no third hyphen precedes
DashDashSpaceTyped ==
  /\ EvHandled
  /\ EvCol >= 3
  /\ EvLine[EvCol] = Sp
  /\ EvLine[EvCol - 1] = Hy
  /\ EvLine[EvCol - 2] = Hy
  /\ (EvCol = 3 \/ EvLine[EvCol - 3] # Hy)

NoFenceLines(d) == \A n \in 1..Len(d) : ~IsFenceLine(d[n])
NoBackticks(d) == \A n \in 1..Len(d) : \A i \in 1..Len(d[n]) : d[n][i] # Bt
FenceLinesUpTo(d, n) == {i \in 0..n : IsFenceLine(GetLine(d, i))}

C1_Pre ==
  /\ DashDashSpaceTyped
  /\ NoFenceLines(ev.doc0)
  /\ NoBackticks(ev.doc0)
  /\ ~Includes(EvLine, <<":", "/", "/">>)

\* C1: on a buffer without fence lines, backticks or a URL on the cursor line,
\* a "--" + space before the cursor (no third hyphen before it) makes the
\* handler issue exactly one replaceRange; the cursor line becomes the text
\* before the hyphens, an em dash, then the space and all text after it, and
\* every other line is unchanged.
C1_OneRewriteKeepsTheRest ==
  C1_Pre =>
    /\ Len(ev.calls) = 1
    /\ Len(doc) = Len(ev.doc0)
    /\ GetLine(doc, ev.cur0.line) =
         SubSeq(EvLine, 1, EvCol - 3) \o <<EmDash>> \o SubSeq(EvLine, EvCol, Len(EvLine))
    /\ \A n \in 1..Len(doc) : n # ev.cur0.line + 1 => doc[n] = ev.doc0[n]

C1_Witness ==
  /\ C1_Pre
  /\ Len(ev.doc0) > 1
  /\ Len(EvLine) > EvCol
  /\ EvCol > 3
  /\ Len(ev.calls) = 1

\* C2: the handler calls replaceRange only with the cursor at column >= 3
\* after a space that follows exactly two hyphens (no hyphen before them), and
\* then once, on the range of the two hyphens; after a run of three or more
\* hyphens and a space it changes nothing.
C2_RewriteOnlyAtTrigger ==
  EvHandled =>
    /\ EvRewrote =>
         /\ DashDashSpaceTyped
         /\ Len(ev.calls) = 1
         /\ ev.calls[1].from = [line |-> ev.cur0.line, ch |-> EvCol - 3]
         /\ ev.calls[1].to = [line |-> ev.cur0.line, ch |-> EvCol - 1]
    /\ (/\ EvCol >= 4
        /\ EvLine[EvCol] = Sp
        /\ \A i \in (EvCol - 3)..(EvCol - 1) : EvLine[i] = Hy)
       => (~EvRewrote /\ doc = ev.doc0)

C2_Witness ==
  /\ EvHandled
  /\ EvCol >= 4
  /\ EvLine[EvCol] = Sp
  /\ \A i \in (EvCol - 3)..(EvCol - 1) : EvLine[i] = Hy
  /\ NoFenceLines(ev.doc0)
  /\ NoBackticks(ev.doc0)
  /\ ~EvRewrote

\* the two hyphens lie between a pair of backticks of the line: an odd number
\* of backticks before the first hyphen, one or more after the space
C5_Pre ==
  /\ DashDashSpaceTyped
  /\ ~cm5
  /\ Cardinality({i \in 1..(EvCol - 3) : EvLine[i] = Bt}) % 2 = 1
  /\ \E i \in (EvCol + 1)..Len(EvLine) : EvLine[i] = Bt

\* C5: without the token capability, a "--" + space between a pair of single
\* backticks of the line is not substituted.
C5_NoRewriteInInlineCode == C5_Pre => (~EvRewrote /\ doc = ev.doc0)

C5_Witness ==
  /\ C5_Pre
  /\ NoFenceLines(ev.doc0)
  /\ ~EvRewrote

\* C7: the call of the handler for the change event raised by its own rewrite
\* issues no replaceRange, with the cursor after the space or left where it
\* was; so one keystroke causes at most one rewrite and the events stop.
C7_NoRewriteOnReentry ==
  /\ rewrites <= 1
  /\ (EvHandled /\ ev.cause = "rewrite") => (~EvRewrote /\ pending = "none")

C7_Witness ==
  /\ EvHandled
  /\ ev.cause = "rewrite"
  /\ EvCol >= 2
  /\ EvLine[EvCol] = Sp
  /\ EvLine[EvCol - 1] = EmDash
  /\ rewrites = 1
  /\ pending = "none"

\* C8: with the token capability, when neither fence check nor the backtick
\* count says code, the probe is inside code exactly when the token is inline
\* code and starts at or before the first hyphen (column c-3).
C8_TokenCoversBothHyphens ==
  (/\ DashDashSpaceTyped
   /\ cm5
   /\ ~FenceScan(ev.doc0, ContextCheckPos(ev.cur0))
   /\ ~OnFenceLine(ev.doc0, ContextCheckPos(ev.cur0))
   /\ ~BacktickFallback(ev.doc0, ContextCheckPos(ev.cur0)))
  => (ev.inCode <=> (/\ ~ev.tok.null
                     /\ ev.tok.type = InlineCode
                     /\ ev.tok.start <= EvCol - 3))

\* the cursor line is no fence line and an odd number of fence lines lie
\* above it: it is inside a fenced block that is open
InsideOpenFence ==
  /\ ~IsFenceLine(EvLine)
  /\ Cardinality(FenceLinesUpTo(ev.doc0, ev.cur0.line)) % 2 = 1

\* C3: a "--" + space typed on a line inside a fenced block is not
\* substituted, however far above the opening fence line is.
C3_NoRewriteInsideFence ==
  (DashDashSpaceTyped /\ InsideOpenFence) => ~EvRewrote

\* C9: a probe on an opening fence line, at or before the last character of
\* its marker, is not classified as inside code.
C9_OnTheMarkerIsOutside ==
  (/\ ev.kind = "probe"
   /\ IsFenceLine(EvLine)
   /\ Cardinality(FenceLinesUpTo(ev.doc0, ev.cur0.line)) % 2 = 1
   /\ EvCol <= IndexOf(EvLine, Fence) + 2)
  => ~ev.inCode

C10_Pre ==
  /\ ev.kind = "probe" \/ DashDashSpaceTyped
  /\ ~cm5
  /\ ~IsFenceLine(EvLine)
  /\ ~Includes(EvLine, <<Bt>>)

NearestFenceAbove ==
  LET fs == FenceLinesUpTo(ev.doc0, ev.cur0.line)
  IN CHOOSE i \in fs : \A j \in fs : i >= j

\* C10: without the token capability, on a probe line that is no fence line
\* and holds no backtick: with no fence line above, the answer is false; with
\* the nearest fence line above at most 10 lines away, the answer is true
\* exactly when the number of fence lines up to the probe line is odd.
C10_WindowAgreesWithParity ==
  C10_Pre =>
    LET fs == FenceLinesUpTo(ev.doc0, ev.cur0.line)
    IN /\ fs = {} => ~ev.inCode
       /\ (fs # {} /\ ev.cur0.line - NearestFenceAbove <= 10)
            => (ev.inCode <=> Cardinality(fs) % 2 = 1)

C10_Witness ==
  /\ C10_Pre
  /\ DashDashSpaceTyped
  /\ Cardinality(FenceLinesUpTo(ev.doc0, ev.cur0.line)) = 1
  /\ ev.cur0.line - NearestFenceAbove = 10
  /\ NearestFenceAbove > 0
  /\ ev.inCode
  /\ ~EvRewrote

\* the text before the two hyphens
EvBefore == SubSeq(EvLine, 1, EvCol - 3)

\* the text before the hyphens ends with an absolute URL
EndsWithUrl(s) == \E i \in 0..(Len(s) - 1) : UrlMatchEnd(s, i) = Len(s)

\* C4: a "--" + space that directly continues an absolute URL of the line is
\* recognised by isInsideUrl and is not substituted.
C4_NoRewriteInsideUrl ==
  (DashDashSpaceTyped /\ EndsWithUrl(EvBefore)) => (ev.inUrl /\ ~EvRewrote)

\* an absolute URL of the line ends before the hyphens with whitespace in
\* between, or starts after the space
UrlApart(i) ==
  LET e == UrlMatchEnd(EvLine, i)
  IN \/ e <= EvCol - 3 /\ \E k \in (e + 1)..(EvCol - 3) : IsSpace(EvLine[k])
     \/ i >= EvCol

C6_Pre ==
  /\ DashDashSpaceTyped
  /\ ~cm5
  /\ NoFenceLines(ev.doc0)
  /\ NoBackticks(ev.doc0)
  /\ \E i \in UrlStarts(EvLine) : UrlApart(i)
  /\ ~EndsWithUrl(EvBefore \o DashDash)

\* C6: with a URL elsewhere on the line, separated by whitespace from the
\* "--" + space, and no code context, isInsideUrl answers false and the two
\* hyphens become an em dash.
C6_RewriteOutsideUrl ==
  C6_Pre =>
    /\ ~ev.inUrl
    /\ ev.calls = <<[text |-> <<EmDash>>,
                     from |-> [line |-> ev.cur0.line, ch |-> EvCol - 3],
                     to |-> [line |-> ev.cur0.line, ch |-> EvCol - 1]]>>
    /\ GetLine(doc, ev.cur0.line) =
         EvBefore \o <<EmDash>> \o SubSeq(EvLine, EvCol, Len(EvLine))

C6_Witness ==
  /\ C6_Pre
  /\ \E i \in UrlStarts(EvLine) :
       UrlApart(i) /\ i < EvCol /\ Includes(SubSeq(EvLine, i + 1, UrlMatchEnd(EvLine, i)), DashDash)
  /\ EvRewrote

====
